---- MODULE Spec2Model ----
(***************************************************************************)
(* Model of the HomePlug-AV powerline integrations:                        *)
(*   custom_components/homeplug_av      (presence cycle with per-adapter    *)
(*                                       detail polling, mesh stats cycle,  *)
(*                                       restart button, adapter index map) *)
(*   custom_components/powerline-stats  (presence cycle, single stats call  *)
(*                                       with retries)                      *)
(* Every coroutine is a task; one model step is what a task executes        *)
(* between two suspension points of the event loop (an await that really    *)
(* suspends: waiting for the lock, an executor job, a sleep).               *)
(***************************************************************************)
EXTENDS Integers, Sequences, FiniteSets, TLC

VARIABLES
    variant,            \* which integration is installed
    adapters,           \* hass.data[DOMAIN][entry_id]["adapters"]: setup's discover list (raw MACs)
    online_macs,        \* hass.data[...]["online_macs"]
    index_map,          \* hass.data[...]["index_map"]
    options_index_map,  \* entry.options["index_map"], the persisted configuration
    locked,             \* network_lock._locked
    waiters,            \* network_lock._waiters, in arrival order
    pc,                 \* position of every task
    new_set,            \* _poll_discover: local new_set (after the first probe)
    probes,             \* _poll_discover: discover replies the running / last run has received
    it_snap,            \* detail loop: online_macs as the set iterator last saw it
    it_todo,            \* detail loop: members the iterator has not yielded yet
    it_mac,             \* detail loop: loop variable mac
    discover_list_data, \* hass.data[...]["discover_list_data"], in insertion order
    fired,              \* payload MACs of the discover_list_updated events fired
                        \* by the latest return of a discover_list job
    target,             \* restart button: MAC of the pressed button
    known_macs,         \* coordinator._known_macs
    data,               \* coordinator.data (None and {} read the same everywhere)
    mesh_data,          \* coordinator.mesh_data
    results,            \* results of the poll_single_adapter tasks of the running gather
    attempt,            \* powerline-stats: loop variable attempt
    clock,              \* time.time(), in stats cycles
    script              \* the backend's answer to each call where cycles are re-run
                        \* against an unchanged network (fixed in a behaviour)

presenceVars == <<online_macs, new_set, probes, it_snap, it_todo, it_mac, discover_list_data,
                  fired>>
gateVars == <<locked, waiters, pc>>
setupVars == <<variant, adapters, index_map, options_index_map, script>>
statsVars == <<known_macs, data, mesh_data, results, attempt, clock>>
vars == <<variant, adapters, online_macs, index_map, options_index_map, locked, waiters,
          pc, new_set, probes, it_snap, it_todo, it_mac, discover_list_data, fired,
          target, known_macs, data, mesh_data, results, attempt, clock, script>>

-----------------------------------------------------------------------------
(* Universe and backend replies *)

\* MAC strings as a backend may spell them
RawMacs == {"AA", "aa", "bb", "cc"}

\* str.lower() on the MAC spellings of RawMacs
Lower(m) == IF m = "AA" THEN "aa" ELSE m

MACs == {Lower(m) : m \in RawMacs}

\* longest discover list the backend returns
MaxList == 3

RECURSIVE SeqsUpTo(_, _)
SeqsUpTo(S, n) ==
    IF n = 0 THEN {<< >>}
    ELSE LET shorter == SeqsUpTo(S, n - 1)
         IN  shorter \cup {Append(s, x) : s \in {t \in shorter : Len(t) = n - 1},
                                           x \in S}

NoRepeat(s) == \A i, j \in DOMAIN s : i # j => s[i] # s[j]

\* discover lists: every adapter reported once
DiscoverLists == {s \in SeqsUpTo(RawMacs, MaxList) : NoRepeat(s)}

\* What an executor job hands back to the awaiting coroutine:
\* an exception, None, or a list.
Raised == [kind |-> "raise", macs |-> << >>]
ReturnedNone == [kind |-> "none", macs |-> << >>]
Returned(s) == [kind |-> "list", macs |-> s]

DiscoverReplies == {Raised, ReturnedNone} \cup {Returned(s) : s \in DiscoverLists}

\* {a["mac"].lower() for a in result}
MacSet(s) == {Lower(s[i]) : i \in DOMAIN s}

\* Python truthiness of a discover result (None and [] are falsy)
Truthy(r) == r.kind = "list" /\ r.macs # << >>

\* discover-list (detail) replies: an exception, None, or a dict which may
\* carry a "stations" list; a station is a record with the MAC it describes
DetailRaised == [kind |-> "raise", has_stations |-> FALSE, stations |-> << >>]
DetailNone == [kind |-> "none", has_stations |-> FALSE, stations |-> << >>]
DetailDict(has, st) == [kind |-> "dict", has_stations |-> has, stations |-> st]

\* faulty variant of HasStations: a dict without a station list is stored too
HasStationsAnyDict(r) == r.kind = "dict"

\* `if disc_list_result and "stations" in disc_list_result`
HasStations(r) == r.kind = "dict" /\ r.has_stations

\* d[k] = v on a dict kept as the sequence of its items: a key already there
\* keeps its place, a new key goes to the end
DictSet(d, k, v) ==
    IF \E i \in DOMAIN d : d[i].mac = k
    THEN [i \in DOMAIN d |-> IF d[i].mac = k THEN [mac |-> k, stations |-> v] ELSE d[i]]
    ELSE Append(d, [mac |-> k, stations |-> v])

-----------------------------------------------------------------------------
(* Tasks *)

Variants == {"homeplug_av", "powerline_stats"}

\* _poll_discover runs: a tick may fire while the previous run is still going
Cycles == {"poll1", "poll2"}
\* PowerlineRestartButton.async_press runs
Presses == {"press1"}
\* the coordinator's refresh (_async_update_data)
Update == "update"
\* poll_single_adapter(mac) tasks are named by their MAC
Tasks == Cycles \cup Presses \cup MACs \cup {Update}

Finished == {"idle", "aborted", "end", "raised"}
CallPcs == {"p1_call", "p2_call", "dl_call", "rs_call", "st_call", "ps_call"}
WaitPcs == {"p1_wait", "p2_wait", "dl_wait", "rs_wait", "st_wait", "ps_wait"}

\* the statement a task continues with once lock.acquire() returns
CallOf(p) ==
    CASE p = "p1_wait" -> "p1_call"
      [] p = "p2_wait" -> "p2_call"
      [] p = "dl_wait" -> "dl_call"
      [] p = "rs_wait" -> "rs_call"
      [] p = "st_wait" -> "st_call"
      [] p = "ps_wait" -> "ps_call"
      [] OTHER -> p

-----------------------------------------------------------------------------
(* The gate: asyncio.Lock shared by every backend call *)

\* faulty variant of CanTake: the lock is entered without looking at it
CanTakeUnguarded(l, w) == TRUE

\* faulty variant of CanTake: a free lock is taken past the queue
CanTakePastQueue(l, w) == ~l

\* Lock.acquire() fast path: free and nobody queued before us
CanTake(l, w) == ~l /\ w = << >>

\* faulty variant of Acquire: a task that has to wait goes to the head of the queue
AcquireAtFront(t, callpc, waitpc) ==
    IF CanTake(locked, waiters)
    THEN /\ locked' = TRUE
         /\ waiters' = waiters
         /\ pc' = [pc EXCEPT ![t] = callpc]
    ELSE /\ locked' = locked
         /\ waiters' = <<t>> \o waiters
         /\ pc' = [pc EXCEPT ![t] = waitpc]

\* `async with lock:` entered by a task that does not hold the lock
Acquire(t, callpc, waitpc) ==
    IF CanTake(locked, waiters)
    THEN /\ locked' = TRUE
         /\ waiters' = waiters
         /\ pc' = [pc EXCEPT ![t] = callpc]
    ELSE /\ locked' = locked
         /\ waiters' = Append(waiters, t)
         /\ pc' = [pc EXCEPT ![t] = waitpc]

\* faulty variant of ReleaseThenAcquire: one `async with` around both calls
KeepLock(t, callpc, waitpc) ==
    /\ locked' = TRUE
    /\ waiters' = waiters
    /\ pc' = [pc EXCEPT ![t] = callpc]

\* leaving one `async with lock:` block and entering the next one without
\* an await in between
ReleaseThenAcquire(t, callpc, waitpc) ==
    IF CanTake(FALSE, waiters)
    THEN /\ locked' = TRUE
         /\ waiters' = waiters
         /\ pc' = [pc EXCEPT ![t] = callpc]
    ELSE /\ locked' = FALSE
         /\ waiters' = Append(waiters, t)
         /\ pc' = [pc EXCEPT ![t] = waitpc]

\* faulty variant of Release: the lock is released by hand after the call and an
\* exception skips the release
ReleaseUnlessRaised(t, endpc) ==
    /\ locked' = (endpc = "raised")
    /\ waiters' = waiters
    /\ pc' = [pc EXCEPT ![t] = endpc]

\* leaving `async with lock:` (Lock.release() in __aexit__), then running on
\* to position endpc without touching the lock again
Release(t, endpc) ==
    /\ locked' = FALSE
    /\ waiters' = waiters
    /\ pc' = [pc EXCEPT ![t] = endpc]

\* release() woke the first waiter; it resumes inside acquire() and takes the lock
LockGranted(t) ==
    /\ pc[t] \in WaitPcs
    /\ ~locked
    /\ waiters # << >>
    /\ Head(waiters) = t
    /\ locked' = TRUE
    /\ waiters' = Tail(waiters)
    /\ pc' = [pc EXCEPT ![t] = CallOf(pc[t])]
    /\ UNCHANGED <<setupVars, presenceVars, target, statsVars>>

-----------------------------------------------------------------------------
(* Presence cycle: _poll_discover *)

\* the five locals of run c of _poll_discover
Locals(c, ns, pr, snap, todo, mac) ==
    /\ new_set' = [new_set EXCEPT ![c] = ns]
    /\ probes' = [probes EXCEPT ![c] = pr]
    /\ it_snap' = [it_snap EXCEPT ![c] = snap]
    /\ it_todo' = [it_todo EXCEPT ![c] = todo]
    /\ it_mac' = [it_mac EXCEPT ![c] = mac]

\* run c leaves its `async with` block and ends at position endpc
\* (a return, the end of the function, or an exception that propagates)
Terminate(c, endpc) ==
    /\ Release(c, endpc)
    /\ Locals(c, {}, 0, {}, {}, "")

\* one turn of `for mac in online_macs:` when the iterator, which last saw
\* the set as cur, still has rest to yield: the loop ends, or the body is
\* entered with the next member and asks for the lock
DetailStep(c, pr, cur, rest) ==
    IF rest = {}
    THEN Terminate(c, "end")
    ELSE \E m \in rest :
            /\ ReleaseThenAcquire(c, "dl_call", "dl_wait")
            /\ Locals(c, {}, pr, cur, rest \ {m}, m)

\* The set iterator raises RuntimeError when the set's size differs from the
\* size it was created with; when the set was replaced by one of the same
\* size, the members still to come are whatever the rebuilt hash table holds
\* behind the iterator's position.
DetailNext(c) ==
    IF Cardinality(online_macs) # Cardinality(it_snap[c])
    THEN Terminate(c, "raised")
    ELSE \E rest \in (IF online_macs = it_snap[c] THEN {it_todo[c]}
                                                 ELSE SUBSET online_macs) :
            DetailStep(c, probes[c], online_macs, rest)

\* faulty variant of Committed: the step ends between clear() and update()
CommittedCleared(old, ns) == {}

\* what lines 110-111 leave in online_macs
Committed(old, ns) == ns

\* online_macs.clear(); online_macs.update(new_set); then, in homeplug_av,
\* the detail loop starts on the set just written
Commit(c, ns, pr) ==
    /\ online_macs' = Committed(online_macs, ns)
    /\ IF variant = "homeplug_av"
       THEN DetailStep(c, pr, Committed(online_macs, ns), Committed(online_macs, ns))
       ELSE Terminate(c, "end")

\* the timer fires: a new run of _poll_discover goes up to its first await
PollStart(c) ==
    /\ pc[c] \in Finished
    /\ Acquire(c, "p1_call", "p1_wait")
    /\ UNCHANGED <<setupVars, presenceVars, target, statsVars>>

\* faulty variant of IsNone: a None result is read as an empty list
NeverNone(r) == FALSE

\* `if result1 is None: return`
IsNone(r) == r.kind = "none"

\* faulty variant of NeedsSecondProbe: the test is inverted
InvertedSecondProbe(maybe_lost) == maybe_lost = {}

\* faulty variant of NeedsSecondProbe: the first probe's set is committed at once
NoSecondProbe(maybe_lost) == FALSE

\* faulty variant of NeedsSecondProbe: every run probes twice
SecondProbeAlways(maybe_lost) == TRUE

\* `if maybe_lost:` decides whether the second probe is made
NeedsSecondProbe(maybe_lost) == maybe_lost # {}

\* the first discover job hands back r
Phase1Return(c, r) ==
    /\ pc[c] = "p1_call"
    /\ IF r.kind = "raise"
       THEN Terminate(c, "raised") /\ UNCHANGED online_macs
       ELSE IF IsNone(r)
       THEN Terminate(c, "aborted") /\ UNCHANGED online_macs
       ELSE LET ns == MacSet(r.macs)
                maybe_lost == online_macs \ ns
            IN  IF NeedsSecondProbe(maybe_lost)
                THEN /\ ReleaseThenAcquire(c, "p2_call", "p2_wait")
                     /\ Locals(c, ns, 1, {}, {}, "")
                     /\ UNCHANGED online_macs
                ELSE Commit(c, ns, 1)
    /\ UNCHANGED <<setupVars, discover_list_data, fired, target, statsVars>>

\* faulty variant of Merged: the second probe's MACs are dropped
MergedFirstOnly(ns, r) == ns

\* new_set after `if result2: new_set.update(new_set_second)`
Merged(ns, r) == IF Truthy(r) THEN ns \cup MacSet(r.macs) ELSE ns

\* faulty variant of Phase2Return: an exception of the second probe is caught
\* and the first probe's set is committed
Phase2ReturnCommitsOnError(c, r) ==
    /\ pc[c] = "p2_call"
    /\ Commit(c, IF r.kind = "raise" THEN new_set[c] ELSE Merged(new_set[c], r), 2)
    /\ UNCHANGED <<setupVars, discover_list_data, fired, target, statsVars>>

\* the second discover job hands back r
Phase2Return(c, r) ==
    /\ pc[c] = "p2_call"
    /\ IF r.kind = "raise"
       THEN Terminate(c, "raised") /\ UNCHANGED online_macs
       ELSE Commit(c, Merged(new_set[c], r), 2)
    /\ UNCHANGED <<setupVars, discover_list_data, fired, target, statsVars>>

\* faulty variant of DetailReturn: an adapter whose poll failed is taken out of
\* online_macs
DetailReturnDropsAdapter(c, r) ==
    /\ pc[c] = "dl_call"
    /\ discover_list_data' = discover_list_data
    /\ fired' = {}
    /\ online_macs' = IF r.kind = "raise" THEN online_macs \ {it_mac[c]} ELSE online_macs
    /\ Terminate(c, "end")
    /\ UNCHANGED <<setupVars, target, statsVars>>

\* `for adapter_mac in online_macs: hass.bus.async_fire(..., {"mac": adapter_mac})`
\* after a reply was stored
Fired(r, online) == IF HasStations(r) THEN online ELSE {}

\* the discover_list job for it_mac[c] hands back r
DetailReturn(c, r) ==
    /\ pc[c] = "dl_call"
    /\ discover_list_data' =
          IF HasStations(r) THEN DictSet(discover_list_data, it_mac[c], r.stations)
                            ELSE discover_list_data
    /\ fired' = Fired(r, online_macs)
    /\ DetailNext(c)
    /\ UNCHANGED <<setupVars, online_macs, target, statsVars>>

-----------------------------------------------------------------------------
(* Restart button: PowerlineRestartButton.async_press *)

\* the button of adapter m is pressed
PressStart(p, m) ==
    /\ variant = "homeplug_av"
    /\ pc[p] \in Finished
    /\ m \in MacSet(adapters)
    /\ Acquire(p, "rs_call", "rs_wait")
    /\ target' = [target EXCEPT ![p] = m]
    /\ UNCHANGED <<setupVars, presenceVars, statsVars>>

\* faulty variant of PressReturn: an exception of the restart job is not caught
PressReturnRaises(p, ok) ==
    /\ pc[p] = "rs_call"
    /\ Release(p, IF ok THEN "end" ELSE "raised")
    /\ target' = [target EXCEPT ![p] = ""]
    /\ UNCHANGED <<setupVars, presenceVars, statsVars>>

\* the restart job returns or raises; both are only logged
PressReturn(p, ok) ==
    /\ pc[p] = "rs_call"
    /\ Release(p, "end")
    /\ target' = [target EXCEPT ![p] = ""]
    /\ UNCHANGED <<setupVars, presenceVars, statsVars>>

-----------------------------------------------------------------------------
(* Stats cycle of homeplug_av: PowerlineDataUpdateCoordinator._async_update_data *)

\* a dict with no entries
EmptyMap == [x \in {} |-> 0]

\* network_stats replies: an exception, None, or a list of peer observations
\* [mac, to_rate, from_rate]; mac = "" stands for an entry the loop skips
\* (not a dict, or without a MAC)
StatsRaised == [kind |-> "raise", stats |-> << >>]
StatsNone == [kind |-> "none", stats |-> << >>]
StatsList(l) == [kind |-> "list", stats |-> l]
Pending == [kind |-> "pending", stats |-> << >>]

\* faulty variant of MeshEntry: the two directions are exchanged
MeshEntrySwapped(stat, now) ==
    [tx_rate |-> stat.from_rate, rx_rate |-> stat.to_rate, last_seen |-> now]

\* mesh_data[key] = {...} for one observation of source_mac
MeshEntry(stat, now) ==
    [tx_rate |-> stat.to_rate, rx_rate |-> stat.from_rate, last_seen |-> now]

\* faulty variant of AddStats: the key is built as peer_source
RECURSIVE AddStatsPeerFirst(_, _, _, _)
AddStatsPeerFirst(mesh, source_mac, stats_list, now) ==
    IF stats_list = << >> THEN mesh
    ELSE LET stat == Head(stats_list)
             key == <<Lower(stat.mac), source_mac>>
             rest == [k \in DOMAIN mesh \ {key} |-> mesh[k]]
         IN  IF stat.mac = ""
             THEN AddStatsPeerFirst(mesh, source_mac, Tail(stats_list), now)
             ELSE AddStatsPeerFirst((key :> MeshEntry(stat, now)) @@ rest,
                                    source_mac, Tail(stats_list), now)

\* `for stat in stats_list:` of one source adapter
RECURSIVE AddStats(_, _, _, _)
AddStats(mesh, source_mac, stats_list, now) ==
    IF stats_list = << >> THEN mesh
    ELSE LET stat == Head(stats_list)
             key == <<source_mac, Lower(stat.mac)>>
             rest == [k \in DOMAIN mesh \ {key} |-> mesh[k]]
         IN  IF stat.mac = ""
             THEN AddStats(mesh, source_mac, Tail(stats_list), now)
             ELSE AddStats((key :> MeshEntry(stat, now)) @@ rest,
                           source_mac, Tail(stats_list), now)

\* faulty variant of AddResults: the first failed result ends the loop
RECURSIVE AddResultsUntilFailure(_, _, _, _)
AddResultsUntilFailure(mesh, res, sources, now) ==
    IF sources = {} THEN mesh
    ELSE LET m == CHOOSE x \in sources : TRUE
         IN  IF res[m].kind = "list"
             THEN AddResultsUntilFailure(AddStats(mesh, m, res[m].stats, now),
                                         res, sources \ {m}, now)
             ELSE mesh

\* `for result in results:` over the gathered task results
RECURSIVE AddResults(_, _, _, _)
AddResults(mesh, res, sources, now) ==
    IF sources = {} THEN mesh
    ELSE LET m == CHOOSE x \in sources : TRUE
         IN  AddResults(IF res[m].kind = "list"
                        THEN AddStats(mesh, m, res[m].stats, now)
                        ELSE mesh,
                        res, sources \ {m}, now)

\* the table a cycle starts to fill: `mesh_data: Dict = {}`
FreshMesh(previous) == EmptyMap

\* lines 103-144: aggregate the gathered results and publish them
Aggregate(known, res) ==
    /\ mesh_data' = AddResults(FreshMesh(mesh_data), res, known, clock)
    /\ data' = [m \in known |-> [last_seen |-> clock]]
    /\ clock' = clock + 1

\* stats cycles the clock is followed for
MaxClock == 2

\* orders in which `for mac in self._known_macs` may build the task list
Orders(S) == {s \in SeqsUpTo(S, Cardinality(S)) : Len(s) = Cardinality(S) /\ NoRepeat(s)}

\* the refresh starts: update _known_macs, create one task per known MAC;
\* every task then runs up to its first await, in list order
StatsStart(order) ==
    /\ variant = "homeplug_av"
    /\ pc[Update] \in Finished
    /\ clock < MaxClock
    /\ LET known == known_macs \cup DOMAIN data \cup MacSet(adapters)
           first == IF CanTake(locked, waiters) THEN {order[1]} ELSE {}
           queued == SelectSeq(order, LAMBDA m : m \notin first)
       IN  /\ order \in Orders(known)
           /\ known_macs' = known
           /\ IF known = {}
              THEN /\ Aggregate(known, results)
                   /\ pc' = [pc EXCEPT ![Update] = "end"]
                   /\ UNCHANGED <<locked, waiters, results>>
              ELSE /\ locked' = (locked \/ first # {})
                   /\ waiters' = waiters \o queued
                   /\ pc' = [t \in Tasks |->
                               IF t = Update THEN "gathering"
                               ELSE IF t \in first THEN "st_call"
                               ELSE IF t \in known THEN "st_wait"
                               ELSE pc[t]]
                   /\ results' = [m \in MACs |-> Pending]
                   /\ UNCHANGED <<data, mesh_data, clock>>
    /\ UNCHANGED <<setupVars, presenceVars, target, attempt>>

\* the network_stats job of poll_single_adapter(m) hands back r
StatReturn(m, r) ==
    /\ pc[m] = "st_call"
    /\ Release(m, "st_done")
    /\ results' = [results EXCEPT ![m] = r]
    /\ UNCHANGED <<setupVars, presenceVars, target, known_macs, data, mesh_data,
                   attempt, clock>>

\* faulty variant of StatsFinish: the results are processed as soon as one
\* task has finished
StatsFinishAtFirstResult ==
    /\ pc[Update] = "gathering"
    /\ \E m \in known_macs : pc[m] = "st_done"
    /\ Aggregate(known_macs, results)
    /\ pc' = [t \in Tasks |-> IF t = Update THEN "end"
                              ELSE IF t \in known_macs THEN "idle" ELSE pc[t]]
    /\ results' = [m \in MACs |-> Pending]
    /\ UNCHANGED <<setupVars, presenceVars, target, locked, waiters, known_macs, attempt>>

\* every task has finished: gather returns and the refresh runs to its end
StatsFinish ==
    /\ pc[Update] = "gathering"
    /\ \A m \in known_macs : pc[m] = "st_done"
    /\ Aggregate(known_macs, results)
    /\ pc' = [t \in Tasks |-> IF t = Update THEN "end"
                              ELSE IF t \in known_macs THEN "idle" ELSE pc[t]]
    /\ results' = [m \in MACs |-> Pending]
    /\ UNCHANGED <<setupVars, presenceVars, target, locked, waiters, known_macs, attempt>>

\* PowerlineMeshSensor.native_value: the rate shown for the link
\* source_mac -> target_mac in one direction
NativeValue(mesh, source_mac, target_mac, direction) ==
    LET key == <<source_mac, target_mac>>
    IN  IF key \notin DOMAIN mesh THEN 0
        ELSE IF direction = "tx" THEN mesh[key].tx_rate
        ELSE mesh[key].rx_rate

-----------------------------------------------------------------------------
(* Stats cycle of powerline-stats: one network_stats call, retried *)

\* range(3)
Attempts == 3

\* faulty variant of MergeStats: the new dict holds the reported peers only
RECURSIVE MergeStatsDropsRest(_, _, _)
MergeStatsDropsRest(new_data, valid_stats, now) ==
    IF valid_stats = << >> THEN new_data
    ELSE LET stat == Head(valid_stats)
             mac_lc == Lower(stat.mac)
             entry == [to_rate |-> stat.to_rate, from_rate |-> stat.from_rate,
                       last_seen |-> now]
         IN  IF stat.mac = ""
             THEN MergeStatsDropsRest(new_data, Tail(valid_stats), now)
             ELSE MergeStatsDropsRest((mac_lc :> entry), Tail(valid_stats), now)

\* `for stat in valid_stats:` merged into a copy of the previous data
RECURSIVE MergeStats(_, _, _)
MergeStats(new_data, valid_stats, now) ==
    IF valid_stats = << >> THEN new_data
    ELSE LET stat == Head(valid_stats)
             mac_lc == Lower(stat.mac)
             rest == [k \in DOMAIN new_data \ {mac_lc} |-> new_data[k]]
             entry == [to_rate |-> stat.to_rate, from_rate |-> stat.from_rate,
                       last_seen |-> now]
         IN  IF stat.mac = ""
             THEN MergeStats(new_data, Tail(valid_stats), now)
             ELSE MergeStats((mac_lc :> entry) @@ rest, Tail(valid_stats), now)

\* Python truthiness of a network_stats result
StatsTruthy(r) == r.kind = "list" /\ r.stats # << >>

\* the refresh starts and asks for the lock
PsStart ==
    /\ variant = "powerline_stats"
    /\ pc[Update] \in Finished
    /\ clock < MaxClock
    /\ Acquire(Update, "ps_call", "ps_wait")
    /\ attempt' = 0
    /\ UNCHANGED <<setupVars, presenceVars, target, known_macs, data, mesh_data,
                   results, clock>>

\* the network_stats job of the current attempt hands back r
PsReturn(r) ==
    /\ pc[Update] = "ps_call"
    /\ IF r.kind = "raise"
       THEN /\ Release(Update, "raised")
            /\ clock' = clock + 1
            /\ UNCHANGED data
       ELSE IF StatsTruthy(r)
       THEN /\ Release(Update, "end")
            /\ data' = MergeStats(data, r.stats, clock)
            /\ clock' = clock + 1
       ELSE /\ pc' = [pc EXCEPT ![Update] = "ps_sleep"]
            /\ UNCHANGED <<locked, waiters, data, clock>>
    /\ UNCHANGED <<setupVars, presenceVars, target, known_macs, mesh_data, results,
                   attempt>>

\* asyncio.sleep(0.2 * (attempt + 1)) is over
PsSleepDone ==
    /\ pc[Update] = "ps_sleep"
    /\ IF attempt + 1 < Attempts
       THEN /\ attempt' = attempt + 1
            /\ pc' = [pc EXCEPT ![Update] = "ps_call"]
            /\ UNCHANGED <<locked, waiters, clock>>
       ELSE /\ Release(Update, "end")
            /\ clock' = clock + 1
            /\ UNCHANGED attempt
    /\ UNCHANGED <<setupVars, presenceVars, target, known_macs, data, mesh_data, results>>

-----------------------------------------------------------------------------
(* Setup: async_setup_entry, at installation and after every restart *)

\* {k.lower(): v for k, v in existing_map.items()}
LowerKeys(m) ==
    [k \in {Lower(x) : x \in DOMAIN m} |->
        m[CHOOSE x \in DOMAIN m : Lower(x) = k]]

\* max(existing_map.values(), default=0)
MaxValue(m) ==
    IF DOMAIN m = {} THEN 0
    ELSE CHOOSE v \in {m[k] : k \in DOMAIN m} : \A k \in DOMAIN m : m[k] <= v

\* `for adapter in adapters:` giving next_idx to every MAC not yet in the map
RECURSIVE AssignIndices(_, _, _)
AssignIndices(existing_map, next_idx, list) ==
    IF list = << >> THEN existing_map
    ELSE LET mac_lc == Lower(Head(list))
         IN  IF mac_lc \in DOMAIN existing_map
             THEN AssignIndices(existing_map, next_idx, Tail(list))
             ELSE AssignIndices((mac_lc :> next_idx) @@ existing_map,
                                next_idx + 1, Tail(list))

\* the map setup starts from: hass.data[DOMAIN][entry_id]["index_map"],
\* which line 70 has just set to {}
LoadedIndexMap(persisted) == EmptyMap

\* lines 161-178: the map setup builds, and what it leaves in entry.options
BuiltIndexMap(persisted, list) ==
    LET loaded == LowerKeys(LoadedIndexMap(persisted))
    IN  AssignIndices(loaded, MaxValue(loaded) + 1, list)

\* `if existing_map != hass.data[...]["index_map"]:` async_update_entry is called
SetupWrites(persisted, list, v) ==
    v = "homeplug_av" /\ BuiltIndexMap(persisted, list) # LoadedIndexMap(persisted)

PersistedAfterSetup(persisted, list, v) ==
    IF SetupWrites(persisted, list, v)
    THEN BuiltIndexMap(persisted, list)
    ELSE persisted

\* sorted(): the order of the MAC strings
SortedMacs == <<"aa", "bb", "cc">>
Rank(m) == CHOOSE i \in DOMAIN SortedMacs : SortedMacs[i] = m

\* the platforms' adapter_index_map =
\*   {mac: idx + 1 for idx, mac in enumerate(sorted(adapter_map.keys()))}
\* whose value is the N of "Adapter N"
AdapterIndexMap(list) ==
    [m \in MacSet(list) |-> 1 + Cardinality({x \in MacSet(list) : Rank(x) < Rank(m)})]

\* every station of every stored report, in the order the sensors' loops
\* `for reporting_mac, disc_data in discover_list_data.items()` and
\* `for station in stations` meet them
RECURSIVE AllStations(_)
AllStations(d) == IF d = << >> THEN << >> ELSE Head(d).stations \o AllStations(Tail(d))

\* faulty variant of IsStationOf: the entry's MAC is not looked at
IsAnyStation(station, mac) == TRUE

\* `if station.get("mac", "").lower() == self._mac`
IsStationOf(station, mac) == Lower(station.mac) = mac

\* the station entries the scan of a sensor of adapter mac stops at
Matching(d, mac) == SelectSeq(AllStations(d), LAMBDA st : IsStationOf(st, mac))

\* _format_signal_level. Python source text holds the character sequence
\* U+00E2 U+2030 U+00A4 in the string of level 15; characters outside ASCII
\* are written here as their \u escapes.
FormatSignalLevel(level) ==
    IF level = 0 THEN "Not available"
    ELSE IF level = 15 THEN "\\u00e2\\u2030\\u00a4 -75 dB"
    ELSE IF level = 1 THEN "-10 to 0 dB"
    ELSE LET upper == (0 - 5) * level
             lower == (0 - 5) * (level + 1)
         IN  ToString(lower) \o " to " \o ToString(upper) \o " dB"

\* PowerlineDiscoverListSensor.native_value with field_name "tei": the first
\* matching entry whose value is not None, as str(value)
DiscoverListValue(d, mac) ==
    LET found == SelectSeq(Matching(d, mac), LAMBDA st : st.has_tei)
    IN  IF found = << >> THEN "Unknown" ELSE ToString(Head(found).tei)

\* PowerlineDiscoverListBooleanSensor.native_value with field_name "cco"
BooleanValue(d, mac) ==
    LET found == Matching(d, mac)
    IN  IF found = << >> THEN "No"
        ELSE IF Head(found).cco THEN "Yes" ELSE "No"

\* PowerlineDiscoverListSignalSensor.native_value
SignalValue(d, mac) ==
    LET found == Matching(d, mac)
    IN  IF found = << >> THEN "Unknown"
        ELSE FormatSignalLevel(Head(found).signal_level)

\* _handle_discover_list_update: the entity of adapter mac writes its state
\* on an event with this payload
Rereads(mac, payload) == payload = mac

\* the state async_setup_entry leaves when its discover call returned list
\* and entry.options held persisted
SetupDone(v, persisted, list) ==
    /\ variant = v
    /\ adapters = list
    /\ online_macs = MacSet(list)
    /\ index_map = LoadedIndexMap(persisted)
    /\ options_index_map = PersistedAfterSetup(persisted, list, v)
    /\ locked = FALSE
    /\ waiters = << >>
    /\ pc = [t \in Tasks |-> "idle"]
    /\ new_set = [c \in Cycles |-> {}]
    /\ probes = [c \in Cycles |-> 0]
    /\ it_snap = [c \in Cycles |-> {}]
    /\ it_todo = [c \in Cycles |-> {}]
    /\ it_mac = [c \in Cycles |-> ""]
    /\ discover_list_data = << >>
    /\ fired = {}
    /\ target = [p \in Presses |-> ""]
    /\ known_macs = {}
    /\ data = EmptyMap
    /\ mesh_data = EmptyMap
    /\ results = [m \in MACs |-> Pending]
    /\ attempt = 0
    /\ clock = 0

\* Home Assistant restarts: every task and all of hass.data are gone, the
\* entry's options are kept, and async_setup_entry runs again
Restart(list) ==
    /\ variant' = variant
    /\ adapters' = list
    /\ online_macs' = MacSet(list)
    /\ index_map' = LoadedIndexMap(options_index_map)
    /\ options_index_map' = PersistedAfterSetup(options_index_map, list, variant)
    /\ locked' = FALSE
    /\ waiters' = << >>
    /\ pc' = [t \in Tasks |-> "idle"]
    /\ new_set' = [c \in Cycles |-> {}]
    /\ probes' = [c \in Cycles |-> 0]
    /\ it_snap' = [c \in Cycles |-> {}]
    /\ it_todo' = [c \in Cycles |-> {}]
    /\ it_mac' = [c \in Cycles |-> ""]
    /\ discover_list_data' = << >>
    /\ fired' = {}
    /\ target' = [p \in Presses |-> ""]
    /\ known_macs' = {}
    /\ data' = EmptyMap
    /\ mesh_data' = EmptyMap
    /\ results' = [m \in MACs |-> Pending]
    /\ attempt' = 0
    /\ clock' = 0
    /\ script' = script

-----------------------------------------------------------------------------
(* Specifications *)

\* a station entry of a discover-list reply
Station(m) == [mac |-> m, has_tei |-> TRUE, tei |-> 1, cco |-> FALSE, signal_level |-> 7]

\* peer observations of network_stats replies
PeerSpellings == {"AA", "bb", ""}
RatePairs == {<<100, 50>>, <<60, 70>>}
Observations ==
    {[mac |-> m, to_rate |-> p[1], from_rate |-> p[2]] :
        m \in PeerSpellings, p \in RatePairs}

\* longest network_stats reply
MaxPeers == 2

StatsReplies ==
    {StatsRaised, StatsNone} \cup
    {StatsList(l) : l \in SeqsUpTo(Observations, MaxPeers)}

\* the replies the backend gives while the interplay of all tasks is explored
FewDiscoverReplies == {Raised, Returned(<<"bb">>), Returned(<<"AA", "bb">>)}
FewDetailReplies == {DetailRaised, DetailDict(TRUE, <<Station("bb")>>)}
FewStatsReplies ==
    {StatsRaised, StatsNone,
     StatsList(<<[mac |-> "bb", to_rate |-> 100, from_rate |-> 50]>>)}

\* stats cycles followed while the interplay of all tasks is explored
MaxRefresh == 1

\* the script of behaviours in which every call draws its own reply
NoScript == [p1 |-> ReturnedNone, p2 |-> ReturnedNone, stats |-> [m \in MACs |-> StatsNone]]

\* an installation whose setup found two adapters
Init == script = NoScript /\ \E v \in Variants : SetupDone(v, EmptyMap, <<"AA", "bb">>)

FailedDetail == \E c \in Cycles, r \in {DetailRaised, DetailNone} : DetailReturn(c, r)
FailedStat == \E m \in MACs, r \in {StatsRaised} : StatReturn(m, r)

Tick == \E c \in Cycles : PollStart(c)
Granted == \E t \in Tasks : LockGranted(t)
Probe1 == \E c \in Cycles, r \in FewDiscoverReplies : Phase1Return(c, r)
Probe2 == \E c \in Cycles, r \in FewDiscoverReplies : Phase2Return(c, r)
Detail == \E c \in Cycles, r \in FewDetailReplies : DetailReturn(c, r)
Press == \E p \in Presses, m \in MACs : PressStart(p, m)
Pressed == \E p \in Presses, ok \in BOOLEAN : PressReturn(p, ok)
Refresh == \E order \in SeqsUpTo(MACs, Cardinality(MACs)) :
              clock < MaxRefresh /\ StatsStart(order)
Stat == \E m \in MACs, r \in FewStatsReplies \ {StatsNone} : StatReturn(m, r)
PsRefresh == clock < MaxRefresh /\ PsStart
PsStat == \E r \in FewStatsReplies : PsReturn(r)

\* every task of an installation, after setup
Next ==
    \/ Tick
    \/ Granted
    \/ Probe1
    \/ Probe2
    \/ Detail
    \/ Press
    \/ Pressed
    \/ Refresh
    \/ Stat
    \/ StatsFinish
    \/ PsRefresh
    \/ PsStat
    \/ PsSleepDone

Spec == Init /\ [][Next]_vars

\* Every backend call returns (the executor job ends, by its reply or by its
\* timeout), every sleep ends, and the event loop runs a woken waiter.
Fairness ==
    /\ WF_vars(Granted)
    /\ WF_vars(Probe1)
    /\ WF_vars(Probe2)
    /\ WF_vars(FailedDetail)
    /\ WF_vars(Pressed)
    /\ WF_vars(FailedStat)
    /\ WF_vars(StatsFinish)
    /\ WF_vars(PsStat)
    /\ WF_vars(PsSleepDone)

\* every task of an installation as in Next; the replies of the detail and
\* stats calls of homeplug_av, which decide nothing about the lock, are failures
NextFair ==
    \/ Tick
    \/ Granted
    \/ Probe1
    \/ Probe2
    \/ FailedDetail
    \/ Press
    \/ Pressed
    \/ Refresh
    \/ FailedStat
    \/ StatsFinish
    \/ PsRefresh
    \/ PsStat
    \/ PsSleepDone

SpecFair == Init /\ [][NextFair]_vars /\ Fairness

\* the presence cycle alone, two runs overlapping, every discover reply
InitPresence == script = NoScript /\
                \E v \in Variants, l \in {<<"AA", "bb">>, <<"bb", "cc", "aa">>} :
                   SetupDone(v, EmptyMap, l)

AnyProbe1 == \E c \in Cycles, r \in DiscoverReplies : Phase1Return(c, r)
AnyProbe2 == \E c \in Cycles, r \in DiscoverReplies : Phase2Return(c, r)

NextPresence ==
    \/ Tick
    \/ Granted
    \/ AnyProbe1
    \/ AnyProbe2
    \/ FailedDetail

SpecPresence == InitPresence /\ [][NextPresence]_vars

\* the stats cycle alone, every network_stats reply
AnyRefresh == \E order \in SeqsUpTo(MACs, Cardinality(MACs)) : StatsStart(order)
AnyStat == \E m \in MACs, r \in StatsReplies : StatReturn(m, r)
AnyPsStat == \E r \in StatsReplies : PsReturn(r)

NextStats ==
    \/ Granted
    \/ AnyRefresh
    \/ AnyStat
    \/ StatsFinish
    \/ PsStart
    \/ AnyPsStat
    \/ PsSleepDone

SpecStats == Init /\ [][NextStats]_vars

\* installations over restarts of Home Assistant
InitSetup == script = NoScript /\
             \E l \in DiscoverLists : SetupDone("homeplug_av", EmptyMap, l)

Restarted == \E l \in DiscoverLists : Restart(l)

\* between restarts one run of the presence cycle at a time
SetupTick == PollStart("poll1")
SetupProbe1 == \E r \in FewDiscoverReplies : Phase1Return("poll1", r)
SetupProbe2 == \E r \in FewDiscoverReplies : Phase2Return("poll1", r)
SetupDetail == \E r \in {DetailRaised} : DetailReturn("poll1", r)

NextSetup ==
    \/ Restarted
    \/ SetupTick
    \/ SetupProbe1
    \/ SetupProbe2
    \/ SetupDetail

SpecSetup == InitSetup /\ [][NextSetup]_vars

\* A presence run and then a stats cycle, and both once more, while the
\* network answers every call as it did the first time. poll1 is the first
\* presence run and poll2 the second; clock counts the finished stats cycles.
MaxScriptList == 2
ScriptDiscover ==
    {Raised, ReturnedNone} \cup
    {Returned(l) : l \in {d \in DiscoverLists : Len(d) <= MaxScriptList}}
Scripts == [p1 : ScriptDiscover, p2 : ScriptDiscover, stats : [MACs -> FewStatsReplies]]

InitReplay == script \in Scripts /\ SetupDone("homeplug_av", EmptyMap, <<"AA", "bb">>)

PresenceRunOver(c) == pc[c] \in Finished \ {"idle"}

ReplayTick1 ==
    /\ clock = 0 /\ pc["poll1"] = "idle" /\ pc[Update] = "idle"
    /\ PollStart("poll1")
ReplayTick2 ==
    /\ clock = 1 /\ pc["poll2"] = "idle" /\ pc[Update] = "end"
    /\ PollStart("poll2")
ReplayProbe1 == \E c \in Cycles : Phase1Return(c, script.p1)
ReplayProbe2 == \E c \in Cycles : Phase2Return(c, script.p2)
ReplayDetail == \E c \in Cycles : DetailReturn(c, DetailNone)
ReplayRefresh ==
    /\ PresenceRunOver(IF clock = 0 THEN "poll1" ELSE "poll2")
    /\ \E order \in SeqsUpTo(MACs, Cardinality(MACs)) : StatsStart(order)
ReplayStat == \E m \in MACs : StatReturn(m, script.stats[m])

NextReplay ==
    \/ ReplayTick1
    \/ ReplayTick2
    \/ ReplayProbe1
    \/ ReplayProbe2
    \/ ReplayDetail
    \/ ReplayRefresh
    \/ Granted
    \/ ReplayStat
    \/ StatsFinish

SpecReplay == InitReplay /\ [][NextReplay]_vars

\* The detail reports: one presence run at a time, whose discover_list calls
\* draw replies with station lists of every shape the sensors tell apart.
\* signal levels of the HomePlug AV discover list
Levels == 0 .. 15

\* station entries: two spellings of aa that disagree, one of them without a
\* TEI, an entry for bb, and a station that is no adapter of the installation
ReportStations ==
    {[mac |-> "AA", has_tei |-> TRUE, tei |-> 1, cco |-> TRUE, signal_level |-> 7],
     [mac |-> "aa", has_tei |-> FALSE, tei |-> 0, cco |-> FALSE, signal_level |-> 15],
     [mac |-> "bb", has_tei |-> TRUE, tei |-> 2, cco |-> FALSE, signal_level |-> 1],
     [mac |-> "cc", has_tei |-> TRUE, tei |-> 3, cco |-> TRUE, signal_level |-> 14]}

\* longest station list of a reply
MaxStations == 2

ReportReplies ==
    {DetailRaised, DetailNone, DetailDict(FALSE, << >>)} \cup
    {DetailDict(TRUE, l) : l \in SeqsUpTo(ReportStations, MaxStations)} \cup
    {DetailDict(TRUE, <<[mac |-> "bb", has_tei |-> TRUE, tei |-> 2, cco |-> FALSE,
                         signal_level |-> lv]>>) : lv \in Levels}

ReportTick == PollStart("poll1")
ReportProbe1 ==
    \E r \in {Returned(<<"AA", "bb">>), Returned(<<"bb">>)} : Phase1Return("poll1", r)
ReportProbe2 ==
    \E r \in {Returned(<<"AA", "bb">>), Returned(<<"bb">>)} : Phase2Return("poll1", r)
ReportDetail == \E r \in ReportReplies : DetailReturn("poll1", r)

NextReports ==
    \/ ReportTick
    \/ ReportProbe1
    \/ ReportProbe2
    \/ ReportDetail

InitReports == script = NoScript /\ SetupDone("homeplug_av", EmptyMap, <<"AA", "bb">>)

SpecReports == InitReports /\ [][NextReports]_vars

-----------------------------------------------------------------------------
(* Claims *)

\* tasks whose backend call is in flight
InFlight == {t \in Tasks : pc[t] \in CallPcs}

\* C1: at every instant at most one backend call (discover, discover-list,
\* network stats, restart) is in flight, whatever the interleaving of
\* presence cycles, stats cycles with their fan-out tasks, and button presses.
C1_OneCallInFlight == Cardinality(InFlight) <= 1

\* C1 witness: a presence run is inside its backend call while a stats task
\* and a button press both wait for the gate
C1_Witness ==
    \E c \in Cycles, m \in MACs, p \in Presses :
        /\ pc[c] \in {"p1_call", "p2_call", "dl_call"}
        /\ pc[m] = "st_wait"
        /\ pc[p] = "rs_wait"

C3_CommitsUnion ==
    [][\A c \in Cycles :
          pc[c] = "p2_call" =>
              \A r \in DiscoverReplies :
                  (Phase2Return(c, r) /\ r.kind # "raise")
                      => online_macs' = new_set[c] \cup MacSet(r.macs)]_vars

\* C3 witness: a run has received two replies and has just committed all
\* three adapters, so the second probe returned what the first had missed
C3_Witness ==
    \E c \in Cycles :
        /\ probes[c] = 2
        /\ pc[c] \in {"dl_call", "dl_wait"}
        /\ it_snap[c] = online_macs
        /\ online_macs = {"aa", "bb", "cc"}

\* C4: a MAC leaves OnlineSet only in the step in which a run receives its
\* second reply, and only if neither that reply nor the run's first reply
\* lists it.
C4_RemovedAfterTwoMisses ==
    [][\A m \in online_macs \ online_macs' :
          \E c \in Cycles, r \in DiscoverReplies :
              /\ Phase2Return(c, r)
              /\ m \notin new_set[c]
              /\ m \notin MacSet(r.macs)]_vars

\* C4 witness: the first reply of a run missed an online MAC; the MAC is
\* still in OnlineSet while the run's second probe is in flight
C4_Witness ==
    \E c \in Cycles, m \in MACs :
        /\ pc[c] = "p2_call"
        /\ m \in online_macs
        /\ m \notin new_set[c]

\* C5: a run whose first probe returned an empty result leaves OnlineSet as
\* it was.
C5_EmptyProbeKeepsOnline ==
    [][\A c \in Cycles :
          (pc[c] = "p2_call" /\ new_set[c] = {} /\ pc'[c] # "p2_call")
              => online_macs' = online_macs]_vars

\* C6: when the first discover call raises or returns no result, the run
\* ends there and OnlineSet is what it was.
C6_FailedProbeKeepsOnline ==
    [][\A c \in Cycles, r \in {Raised, ReturnedNone} :
          Phase1Return(c, r)
              => /\ online_macs' = online_macs
                 /\ pc'[c] \in {"aborted", "raised"}]_vars

\* C6 witness: a run has returned at `if result1 is None` and adapters are
\* still online
C6_Witness ==
    \E c \in Cycles : pc[c] = "aborted" /\ online_macs # {}

\* the identity map: the persisted mapping MAC -> index
IdentityMap == options_index_map

\* C7: an index the identity map holds for a MAC is the index it holds for
\* that MAC ever after, restarts included.
C7_IndexIsStable ==
    [][\A m \in DOMAIN IdentityMap :
          /\ m \in DOMAIN IdentityMap'
          /\ IdentityMap'[m] = IdentityMap[m]]_vars

\* C8: no index is held by two MACs, an index held by one MAC is never
\* held by another MAC later, and the highest index given never decreases.
C8_IndexNeverReused ==
    [][/\ \A m, n \in DOMAIN IdentityMap' :
             IdentityMap'[m] = IdentityMap'[n] => m = n
       /\ \A m \in DOMAIN IdentityMap, n \in DOMAIN IdentityMap' :
             IdentityMap'[n] = IdentityMap[m] => n = m
       /\ MaxValue(IdentityMap') >= MaxValue(IdentityMap)]_vars

\* C9: when a presence run of homeplug_av completes, every MAC of OnlineSet
\* has an index in the identity map.
C9_OnlineHaveIndex ==
    [][\A c \in Cycles :
          (variant = "homeplug_av" /\ pc[c] \notin Finished /\ pc'[c] = "end")
              => online_macs' \subseteq DOMAIN IdentityMap']_vars

\* a reply of adapter x that lists peer y
Lists(r, y) ==
    /\ r.kind = "list"
    /\ \E i \in DOMAIN r.stats : r.stats[i].mac # "" /\ Lower(r.stats[i].mac) = y

\* C10: a link (x, y) of the mesh table survives, with its rates and its
\* last_seen, every stats cycle in which the call for x fails, returns
\* nothing or does not list y.
C10_LinkNeverDeleted ==
    [][\A k \in DOMAIN mesh_data :
          (pc[Update] = "gathering" /\ pc'[Update] = "end" /\ ~Lists(results[k[1]], k[2]))
              => /\ k \in DOMAIN mesh_data'
                 /\ mesh_data'[k] = mesh_data[k]]_vars

\* the stats cycle's gather returns in this step
GatherReturns == pc[Update] = "gathering" /\ pc'[Update] # "gathering"

\* C11: a stats cycle in which the call of some adapters raised or returned
\* nothing still ends without error, and every link reported by an adapter
\* whose call succeeded is in the table with this cycle's timestamp.
C11_FailureIsIsolated ==
    [][GatherReturns =>
          /\ pc'[Update] = "end"
          /\ \A x \in known_macs :
                results[x].kind = "list" =>
                    \A i \in DOMAIN results[x].stats :
                        LET stat == results[x].stats[i]
                            key == <<x, Lower(stat.mac)>>
                        IN  stat.mac # "" =>
                                /\ key \in DOMAIN mesh_data'
                                /\ mesh_data'[key].last_seen = clock]_vars

\* C11 witness: the call of aa has raised, the call of bb has returned a
\* peer, and the cycle is about to aggregate
C11_Witness ==
    /\ pc[Update] = "gathering"
    /\ \A m \in known_macs : pc[m] = "st_done"
    /\ results["aa"].kind = "raise"
    /\ results["bb"].kind = "list"
    /\ \E i \in DOMAIN results["bb"].stats : results["bb"].stats[i].mac # ""

\* the adapters a stats cycle has created a task for
Polled(p) == {m \in MACs : p[m] \in {"st_call", "st_wait"}}

\* C12: the adapters a stats cycle polls are exactly the members of
\* OnlineSet when the cycle starts.
C12_PollsOnlineSet ==
    [][(pc[Update] # "gathering" /\ pc'[Update] = "gathering")
          => Polled(pc') = online_macs]_vars

\* C13: after a stats cycle, the link (R, peer) holds as tx_rate the
\* to_rate and as rx_rate the from_rate of R's observation of that peer (of
\* the last one, should the reply list the peer more than once).
C13_RatesOfObservation ==
    [][GatherReturns =>
          \A x \in known_macs :
              results[x].kind = "list" =>
                  \A i \in DOMAIN results[x].stats :
                      LET l == results[x].stats
                          key == <<x, Lower(l[i].mac)>>
                      IN  (/\ l[i].mac # ""
                           /\ \A j \in DOMAIN l : j > i => Lower(l[j].mac) # Lower(l[i].mac))
                              => /\ key \in DOMAIN mesh_data'
                                 /\ mesh_data'[key].tx_rate = l[i].to_rate
                                 /\ mesh_data'[key].rx_rate = l[i].from_rate]_vars

\* C13 witness: aa reported peer bb with to_rate 100 and from_rate 50 and
\* the table holds the link (aa, bb) with tx 100 and rx 50
C13_Witness ==
    /\ pc[Update] = "end"
    /\ <<"aa", "bb">> \in DOMAIN mesh_data
    /\ mesh_data[<<"aa", "bb">>].tx_rate = 100
    /\ mesh_data[<<"aa", "bb">>].rx_rate = 50

\* C14: the MACs a step adds to the identity map get the indices that
\* follow the largest index the map held (the largest index + 1, + 2, ...).
C14_NextIndexFollowsMax ==
    [][LET new == DOMAIN IdentityMap' \ DOMAIN IdentityMap
       IN  {IdentityMap'[m] : m \in new} =
              (MaxValue(IdentityMap) + 1) .. (MaxValue(IdentityMap) + Cardinality(new))]_vars

\* C15: a stats call that raised or returned nothing is tried again while
\* attempts are left, and there is never a fourth attempt.
C15_FailedCallIsRetried ==
    [][/\ attempt' < Attempts
       /\ \A r \in {StatsRaised, StatsNone} :
             (PsReturn(r) /\ attempt + 1 < Attempts) => pc'[Update] = "ps_sleep"]_vars

\* C16: no presence run and no stats cycle is ended by the exception of a
\* backend call.
C16_FailureIsNotRaised ==
    [][/\ \A c \in Cycles : pc[c] \in {"p1_call", "p2_call"} => pc'[c] # "raised"
       /\ pc[Update] = "ps_call" => pc'[Update] # "raised"]_vars

\* C18: a presence run inside its detail loop is never ended by an error,
\* whatever other runs commit in the meantime.
C18_OverlapIsSafe ==
    [][\A c \in Cycles : pc[c] = "dl_call" => pc'[c] # "raised"]_vars

\* C19: every step that changes OnlineSet puts the committing run's whole
\* seen set into it: no state has OnlineSet cleared and not yet refilled.
C19_ReplacedAtomically ==
    [][online_macs' # online_macs =>
          \E c \in Cycles, r \in DiscoverReplies :
              \/ Phase1Return(c, r) /\ online_macs' = MacSet(r.macs)
              \/ Phase2Return(c, r) /\ online_macs' = new_set[c] \cup MacSet(r.macs)]_vars

\* C19 witness: a run whose two probes were made has replaced a non-empty
\* OnlineSet by another non-empty set
C19_Witness ==
    \E c \in Cycles :
        /\ probes[c] = 2
        /\ pc[c] \in {"dl_call", "dl_wait"}
        /\ it_snap[c] = online_macs
        /\ online_macs = {"bb", "cc"}

\* C20: provided every backend call returns, a task that waits for the gate
\* eventually holds it and makes its call.
C20_WaiterGetsGate ==
    \A t \in Tasks : (pc[t] \in WaitPcs) ~> (pc[t] \in CallPcs)

\* C20 witness: a button press has waited behind a presence run and a
\* stats task, and now makes its call
C20_Witness ==
    \E p \in Presses, c \in Cycles, m \in MACs :
        /\ pc[p] = "rs_call"
        /\ pc[c] \in WaitPcs
        /\ pc[m] = "st_done"

\* the links of a mesh table and their rates, without the timestamps
Rates(mesh) == [k \in DOMAIN mesh |-> <<mesh[k].tx_rate, mesh[k].rx_rate>>]

\* C17, as the spec states it: no step of the second presence run and of the
\* second stats cycle, which get the replies of the first, changes OnlineSet,
\* the identity map or the mesh table.
C17_RerunChangesNothing ==
    [][clock >= 1 =>
          /\ online_macs' = online_macs
          /\ IdentityMap' = IdentityMap
          /\ mesh_data' = mesh_data]_vars

\* C17: no step of the second presence run and of the second stats cycle,
\* which get the replies of the first, changes OnlineSet, the identity map,
\* or the links of the mesh table and their rates (last_seen moves on).
C17_RerunKeepsAllButLastSeen ==
    [][clock >= 1 =>
          /\ online_macs' = online_macs
          /\ IdentityMap' = IdentityMap
          /\ Rates(mesh_data') = Rates(mesh_data)]_vars

\* C17 witness: both runs are over, the first run changed OnlineSet, and the
\* table holds a link
C17_Witness ==
    /\ clock = 2
    /\ pc["poll2"] = "end"
    /\ online_macs # MacSet(adapters)
    /\ DOMAIN mesh_data # {}

\* the place of task t in the queue w (0: not queued)
Pos(t, w) == IF \E i \in DOMAIN w : w[i] = t
             THEN CHOOSE i \in DOMAIN w : w[i] = t
             ELSE 0

\* C21: when a task's backend call is over (for powerline-stats: the call
\* with its retries) and another task waits for the gate, the gate is free
\* and the task does not go on to its next call ahead of the waiter.
C21_ReleasedBetweenCalls ==
    [][\A t \in Tasks :
          (/\ pc[t] \in CallPcs
           /\ pc'[t] # pc[t]
           /\ pc'[t] # "ps_sleep"
           /\ waiters # << >>)
              => /\ ~locked'
                 /\ pc'[t] \notin CallPcs
                 /\ Head(waiters') = Head(waiters)]_vars

\* C21 witness: a presence run waits for the gate between two of its detail
\* calls while another task makes its call
C21_Witness ==
    \E c \in Cycles, t \in Tasks \ Cycles :
        /\ pc[c] = "dl_wait"
        /\ it_todo[c] # it_snap[c] \ {it_mac[c]}
        /\ pc[t] \in CallPcs

\* C22, as the spec states it: while a presence run is between its first and
\* its second probe, no other task starts a backend call.
C22_ProbesBackToBack ==
    [][\A c \in Cycles : \A t \in Tasks \ {c} :
          (pc[c] = "p2_wait" /\ pc[t] \notin CallPcs) => pc'[t] \notin CallPcs]_vars

\* C22: a presence run asks for the gate for its second probe in the step
\* in which its first probe returns: it makes the probe at once when nobody
\* waits, and otherwise queues behind the tasks already waiting; no task that
\* arrives later gets ahead of it.
C22_SecondProbeQueuesInOrder ==
    [][\A c \in Cycles :
          /\ (pc[c] = "p1_call" /\ pc'[c] \in {"p2_call", "p2_wait"})
                => IF waiters = << >>
                   THEN pc'[c] = "p2_call"
                   ELSE pc'[c] = "p2_wait" /\ waiters' = Append(waiters, c)
          /\ (pc[c] = "p2_wait" /\ pc'[c] = "p2_wait")
                => /\ Pos(c, waiters') >= 1
                   /\ Pos(c, waiters') <= Pos(c, waiters)]_vars

\* C22 witness: a run is between its two probes while another task, which
\* was queued before it, makes its call
C22_Witness ==
    \E c \in Cycles : \E t \in Tasks \ {c} :
        /\ pc[c] = "p2_wait"
        /\ pc[t] \in CallPcs

\* C23: OnlineSet changes only in a step in which a presence run receives
\* the reply of a discover probe; stats cycles, detail polls and button
\* presses leave it as it is.
C23_OnlyPresenceWrites ==
    [][online_macs' # online_macs =>
          \E c \in Cycles : pc[c] \in {"p1_call", "p2_call"} /\ pc'[c] # pc[c]]_vars

\* C23 witness: a stats cycle, a button press and a presence run with its
\* detail polls are over, and OnlineSet is what setup left
C23_Witness ==
    /\ pc[Update] = "end"
    /\ \E p \in Presses : pc[p] = "end"
    /\ \E c \in Cycles : pc[c] = "end"
    /\ variant = "homeplug_av"
    /\ online_macs = MacSet(adapters)

\* C24: a link (S, T) enters the mesh table, or gets new values, only in the
\* step in which a stats cycle aggregates a reply of S that lists T; and a
\* link that is not in the table reads as rate 0 in both directions.
C24_LinksWereReported ==
    [][/\ \A k \in DOMAIN mesh_data' :
             (k \notin DOMAIN mesh_data \/ mesh_data'[k] # mesh_data[k])
                 => GatherReturns /\ Lists(results[k[1]], k[2])
       /\ \A x, y \in MACs :
             <<x, y>> \notin DOMAIN mesh_data'
                 => /\ NativeValue(mesh_data', x, y, "tx") = 0
                    /\ NativeValue(mesh_data', x, y, "rx") = 0]_vars

\* C24 witness: aa reported bb and bb did not report aa: the table holds
\* (aa, bb), read as 60 / 70, and no (bb, aa), read as 0
C24_Witness ==
    /\ pc[Update] = "end"
    /\ <<"aa", "bb">> \in DOMAIN mesh_data
    /\ <<"bb", "aa">> \notin DOMAIN mesh_data
    /\ NativeValue(mesh_data, "aa", "bb", "tx") = 60
    /\ NativeValue(mesh_data, "aa", "bb", "rx") = 70
    /\ NativeValue(mesh_data, "bb", "aa", "tx") = 0

\* C25: the number the platforms show for an adapter is the index the
\* identity map holds for its MAC.
C25_NumberIsIdentityIndex ==
    \A m \in MacSet(adapters) :
        /\ m \in DOMAIN IdentityMap
        /\ AdapterIndexMap(adapters)[m] = IdentityMap[m]

\* C26: a setup in which every discovered MAC already has a persisted index
\* does not write the identity map.
C26_NoRedundantWrite ==
    [][\A l \in DiscoverLists :
          (Restart(l) /\ MacSet(l) \subseteq DOMAIN IdentityMap)
              => ~SetupWrites(IdentityMap, l, variant)]_vars

\* the station entries of the stored reports that describe adapter mac
EntriesOf(d, mac) ==
    {st \in {AllStations(d)[i] : i \in DOMAIN AllStations(d)} : Lower(st.mac) = mac}

\* C27: the signal sensor shows every level 0..15 as its band: 0 as
\* "Not available", 1 as "-10 to 0 dB", 15 as "<= -75 dB" written with the
\* sign U+2264, and a level L of 2..14 as "<-5(L+1)> to <-5L> dB"; the bands
\* of consecutive levels share a bound.
C27_LevelsReadAsBands ==
    /\ \A L \in 1 .. 13 :
          \E mid \in {(0 - 5) * k : k \in 1 .. 15}, w \in {5, 10} :
             /\ FormatSignalLevel(L) =
                   ToString(mid) \o " to " \o ToString(mid + w) \o " dB"
             /\ FormatSignalLevel(L + 1) =
                   ToString(mid - 5) \o " to " \o ToString(mid) \o " dB"
    /\ \A m \in MACs :
          Matching(discover_list_data, m) # << >> =>
             LET L == Head(Matching(discover_list_data, m)).signal_level
                 shown == SignalValue(discover_list_data, m)
             IN  /\ L = 0 => shown = "Not available"
                 /\ L = 1 => shown = "-10 to 0 dB"
                 /\ L = 7 => shown = "-40 to -35 dB"
                 /\ L = 14 => shown = "-75 to -70 dB"
                 /\ L = 15 => shown = "\\u2264 -75 dB"
                 /\ L \in 2 .. 14 =>
                       shown = ToString((0 - 5) * (L + 1)) \o " to " \o
                               ToString((0 - 5) * L) \o " dB"

\* C28: what the sensors of adapter X show comes from a station entry for X
\* of some stored report, whichever adapter's report holds it, and from no
\* entry of another MAC.
C28_ValueOfOwnEntry ==
    \A X \in MACs :
        LET d == discover_list_data
            entries == EntriesOf(d, X)
        IN  /\ DiscoverListValue(d, X) # "Unknown"
                  => \E st \in entries :
                        st.has_tei /\ DiscoverListValue(d, X) = ToString(st.tei)
            /\ (\E st \in entries : st.has_tei) => DiscoverListValue(d, X) # "Unknown"
            /\ BooleanValue(d, X) = "Yes" => \E st \in entries : st.cco
            /\ SignalValue(d, X) # "Unknown"
                  => \E st \in entries :
                        SignalValue(d, X) = FormatSignalLevel(st.signal_level)
            /\ entries # {}
                  => \E st \in entries :
                        /\ BooleanValue(d, X) = (IF st.cco THEN "Yes" ELSE "No")
                        /\ SignalValue(d, X) = FormatSignalLevel(st.signal_level)

\* C28 witness: the report of aa lists only bb, the report of bb lists aa,
\* and the sensors of aa show the entry of bb's report
C28_Witness ==
    /\ \E i \in DOMAIN discover_list_data :
          /\ discover_list_data[i].mac = "aa"
          /\ EntriesOf(<<discover_list_data[i]>>, "aa") = {}
          /\ discover_list_data[i].stations # << >>
    /\ \E i \in DOMAIN discover_list_data :
          /\ discover_list_data[i].mac = "bb"
          /\ EntriesOf(<<discover_list_data[i]>>, "aa") # {}
    /\ DiscoverListValue(discover_list_data, "aa") = "1"
    /\ BooleanValue(discover_list_data, "aa") = "Yes"
    /\ SignalValue(discover_list_data, "aa") = "-40 to -35 dB"

\* C29: while no stored report holds a station entry for adapter X, every
\* detail sensor of X reads "Unknown".
C29_UnknownUntilReported ==
    \A X \in MACs :
        EntriesOf(discover_list_data, X) = {}
            => /\ DiscoverListValue(discover_list_data, X) = "Unknown"
               /\ SignalValue(discover_list_data, X) = "Unknown"
               /\ BooleanValue(discover_list_data, X) = "Unknown"

\* C30: the return of a discover_list job fires an event for MAC m exactly
\* when it stored a reply holding a station entry of m, and the entity of
\* adapter m writes its state on the events whose payload is m and no others.
C30_NotifiesRefreshed ==
    [][\A c \in Cycles :
          pc[c] = "dl_call" =>
             \A r \in ReportReplies :
                DetailReturn(c, r) =>
                   \A m \in MACs :
                      /\ m \in fired' <=>
                            (HasStations(r) /\ EntriesOf(<<[mac |-> it_mac[c],
                                                            stations |-> r.stations]>>, m) # {})
                      /\ \A payload \in MACs : Rereads(m, payload) <=> payload = m]_vars

\* C31: a discover_list call that raises, returns None or returns no station
\* list leaves every stored report as it was, fires no event, raises nothing
\* out of the run, and the loop goes on to the next online adapter.
C31_FailedDetailIsSkipped ==
    [][\A c \in Cycles :
          pc[c] = "dl_call" =>
             \A r \in {DetailRaised, DetailNone, DetailDict(FALSE, << >>)} :
                DetailReturn(c, r) =>
                   /\ discover_list_data' = discover_list_data
                   /\ fired' = {}
                   /\ (online_macs = it_snap[c] /\ it_todo[c] # {})
                         => /\ pc'[c] \in {"dl_call", "dl_wait"}
                            /\ it_mac'[c] \in it_todo[c]
                   /\ (online_macs = it_snap[c] /\ it_todo[c] = {}) => pc'[c] = "end"
                   /\ pc'[c] = "raised"
                         => Cardinality(online_macs) # Cardinality(it_snap[c])]_vars

\* C31 witness: aa has a stored report, its call of this run has failed (the
\* latest return fired nothing), and the call for bb is in flight
C31_Witness ==
    /\ pc["poll1"] = "dl_call"
    /\ it_snap["poll1"] = {"aa", "bb"}
    /\ it_mac["poll1"] = "bb"
    /\ fired = {}
    /\ \E i \in DOMAIN discover_list_data :
          discover_list_data[i].mac = "aa" /\ discover_list_data[i].stations # << >>

\* C32: a run whose first probe returned a list makes the second probe
\* exactly when some MAC of online_macs is missing from that list; when none
\* is missing it commits the first probe's set, after that one discover call.
C32_SecondProbeIffMissing ==
    [][\A c \in Cycles :
          pc[c] = "p1_call" =>
             \A r \in DiscoverReplies :
                (r.kind = "list" /\ Phase1Return(c, r)) =>
                   /\ pc'[c] \in {"p2_call", "p2_wait"} <=> online_macs \ MacSet(r.macs) # {}
                   /\ online_macs \subseteq MacSet(r.macs)
                         => /\ online_macs' = MacSet(r.macs)
                            /\ pc'[c] \notin {"p2_call", "p2_wait"}
                            /\ pc'[c] \notin Finished => probes'[c] = 1
                   /\ online_macs \ MacSet(r.macs) # {}
                         => online_macs' = online_macs /\ probes'[c] = 1]_vars

\* C32 witness: a run has committed after one probe a set that holds a MAC
\* setup had not found
C32_Witness ==
    /\ pc["poll1"] = "dl_call"
    /\ pc["poll2"] = "idle"
    /\ probes["poll1"] = 1
    /\ MacSet(adapters) = {"aa", "bb"}
    /\ online_macs = {"aa", "bb", "cc"}

\* C33: the refresh of powerline-stats sleeps only between two attempts:
\* after the last attempt has failed it does not sleep, and it gives up the
\* lock at once.
C33_DelayOnlyBetweenAttempts ==
    /\ pc[Update] = "ps_sleep" => attempt + 1 < Attempts
    /\ (pc[Update] \in {"ps_call", "ps_sleep"} /\ locked) => attempt < Attempts

\* C34: in powerline-stats the peers of coordinator.data only grow: a peer
\* the reply does not name keeps its entry, and a refresh whose attempts all
\* came back empty, or whose call raised, leaves data as it was.
C34_PeersOnlyGrow ==
    [][variant = "powerline_stats" =>
          /\ DOMAIN data \subseteq DOMAIN data'
          /\ \A r \in StatsReplies :
                (pc[Update] = "ps_call" /\ PsReturn(r)) =>
                   \A k \in DOMAIN data :
                      k \notin {Lower(r.stats[i].mac) : i \in DOMAIN r.stats}
                          => data'[k] = data[k]
          /\ (pc[Update] \in {"ps_call", "ps_sleep"} /\ pc'[Update] = "raised")
                => data' = data
          /\ pc[Update] = "ps_sleep" => data' = data]_vars

\* C34 witness: bb was reported in the first refresh and not in the second,
\* which reported aa; both are in data
C34_Witness ==
    /\ variant = "powerline_stats"
    /\ DOMAIN data = {"aa", "bb"}
    /\ data["bb"].last_seen = 0
    /\ data["aa"].last_seen = 1

\* C35: when the second probe returns None or an empty list the run commits
\* the set of its first probe and nothing else; when the second probe raises,
\* the run ends there and online_macs is what it was before.
C35_SecondProbeWithoutResult ==
    [][\A c \in Cycles :
          pc[c] = "p2_call" =>
             /\ \A r \in {ReturnedNone, Returned(<< >>)} :
                   Phase2Return(c, r) => online_macs' = new_set[c]
             /\ Phase2Return(c, Raised)
                   => /\ online_macs' = online_macs
                      /\ pc'[c] = "raised"
                      /\ ~locked']_vars

\* C35 witness: the only run so far has committed the empty set, which it
\* can only do when both of its probes came back empty
C35_Witness ==
    /\ pc["poll1"] = "end"
    /\ pc["poll2"] = "idle"
    /\ online_macs = {}
    /\ MacSet(adapters) # {}

\* C36: a stats cycle of homeplug_av creates one task for every known MAC
\* before any result exists, and mesh_data changes only in the one step taken
\* after every task has finished, to the table built from all their results:
\* while the cycle runs, mesh_data is the table of the cycle before.
C36_TablePublishedWhole ==
    [][/\ (pc[Update] \in Finished /\ pc'[Update] = "gathering")
          => /\ \A m \in known_macs' :
                   /\ pc'[m] \in {"st_call", "st_wait"}
                   /\ Cardinality({i \in DOMAIN waiters' : waiters'[i] = m})
                         = (IF pc'[m] = "st_wait" THEN 1 ELSE 0)
             /\ \A m \in MACs \ known_macs' : pc'[m] \notin {"st_call", "st_wait"}
             /\ \A m \in MACs : results'[m] = Pending
             /\ mesh_data' = mesh_data
       /\ mesh_data' # mesh_data
          => /\ pc[Update] = "gathering"
             /\ pc'[Update] = "end"
             /\ \A m \in known_macs : pc[m] = "st_done" /\ results[m] # Pending
             /\ mesh_data' = AddResults(EmptyMap, results, known_macs, clock)]_vars

\* C36 witness: in the second cycle aa has answered with observations and bb
\* has not answered yet, and mesh_data still is the table of the first cycle
C36_Witness ==
    /\ pc[Update] = "gathering"
    /\ clock = 1
    /\ results["aa"].kind = "list" /\ results["aa"].stats # << >>
    /\ pc["bb"] \in {"st_call", "st_wait"}
    /\ DOMAIN mesh_data # {}
    /\ \A k \in DOMAIN mesh_data : mesh_data[k].last_seen = 0

\* C37: the restart job of a press runs only while the press holds the lock;
\* whether the job returns or raises, the press ends without an exception
\* and with the lock released, and no step of a press changes online_macs,
\* mesh_data, the stored detail reports or the identity map.
C37_PressOnlyRestarts ==
    [][\A p \in Presses :
          /\ pc'[p] = "rs_call" => locked'
          /\ pc[p] = "rs_call"
                => \A ok \in BOOLEAN :
                      PressReturn(p, ok) => pc'[p] = "end" /\ ~locked'
          /\ pc'[p] # pc[p]
                => /\ pc'[p] # "raised"
                   /\ online_macs' = online_macs
                   /\ mesh_data' = mesh_data
                   /\ discover_list_data' = discover_list_data
                   /\ IdentityMap' = IdentityMap]_vars

\* C37 witness: a press has ended, the lock is free, and a task that queued
\* behind the press is about to get it
C37_Witness ==
    /\ pc["press1"] = "end"
    /\ ~locked
    /\ waiters # << >>
    /\ online_macs = MacSet(adapters)

====
